---- MODULE Spec2Model ----
(***************************************************************************)
(* A model of the email auto-reply agent (main_email_agent.py) and of its  *)
(* Telegram approval front end (telegram_email_bot.py).                    *)
(*                                                                         *)
(* Each program is one process owning one EmailToEmailAgent instance; the  *)
(* agent's fields are the variables below.  Spec is the polling agent      *)
(* (main_email_agent.main), SpecBot is the chat front end.  The mail       *)
(* server, the SMTP server and the generation service are the environment: *)
(* their answers are inputs drawn with \E in the actions.                  *)
(***************************************************************************)
EXTENDS Integers, Sequences, FiniteSets, TLC

\* ------------------------------------------------------------------ bounds
\* Messages that arrive in the mailbox during one run.
MaxMsgs == 2
\* Largest configured agent.max_emails_per_check that is explored.
MaxLimit == 2
\* Chat commands the front end handles during one run.
MaxCmds == 3
\* Calls of the template reply generator that are compared with each other.
MaxCalls == 2

\* Python's None (a message without a From header has sender None).
None == "<None>"

\* ------------------------------------------------------------------ text
\* Python strings are TLA+ strings; where the code looks inside a string
\* (in, split, strip, lower) the model works on its list of characters.
Chars(s) ==
  CASE s = "Jane Doe <jane@x.com>" -> <<"J", "a", "n", "e", " ", "D", "o", "e", " ", "<", "j", "a", "n", "e", "@", "x", ".", "c", "o", "m", ">">>
    [] s = "bob@x.com" -> <<"b", "o", "b", "@", "x", ".", "c", "o", "m">>
    [] s = "Quick coffee?" -> <<"Q", "u", "i", "c", "k", " ", "c", "o", "f", "f", "e", "e", "?">>
    [] s = "Report" -> <<"R", "e", "p", "o", "r", "t">>
    [] s = "Urgent" -> <<"U", "r", "g", "e", "n", "t">>
    [] s = "Are you free Thursday?" -> <<"A", "r", "e", " ", "y", "o", "u", " ", "f", "r", "e", "e", " ", "T", "h", "u", "r", "s", "d", "a", "y", "?">>
    [] s = "see attached" -> <<"s", "e", "e", " ", "a", "t", "t", "a", "c", "h", "e", "d">>
    [] s = "Proposal" -> <<"P", "r", "o", "p", "o", "s", "a", "l">>
    [] s = "Zoom call ASAP" -> <<"Z", "o", "o", "m", " ", "c", "a", "l", "l", " ", "A", "S", "A", "P">>
    [] s = "Project meeting" -> <<"P", "r", "o", "j", "e", "c", "t", " ", "m", "e", "e", "t", "i", "n", "g">>
    [] s = "Lunch is urgent" -> <<"L", "u", "n", "c", "h", " ", "i", "s", " ", "u", "r", "g", "e", "n", "t">>
    [] s = "Why?" -> <<"W", "h", "y", "?">>
    [] s = "Telegram" -> <<"T", "e", "l", "e", "g", "r", "a", "m">>
    [] s = "Meeting Request" -> <<"M", "e", "e", "t", "i", "n", "g", " ", "R", "e", "q", "u", "e", "s", "t">>
    [] s = "sync Friday" -> <<"s", "y", "n", "c", " ", "F", "r", "i", "d", "a", "y">>
    [] s = "" -> <<>>
    [] s = " Noted, thanks. " -> <<" ", "N", "o", "t", "e", "d", ",", " ", "t", "h", "a", "n", "k", "s", ".", " ">>


RECURSIVE Str(_)
Str(cs) == IF cs = <<>> THEN "" ELSE Head(cs) \o Str(Tail(cs))

UpperAlpha == <<"A", "B", "C", "D", "E", "F", "G", "H", "I", "J", "K", "L", "M", "N", "O", "P", "Q", "R", "S", "T", "U", "V", "W", "X", "Y", "Z">>
LowerAlpha == <<"a", "b", "c", "d", "e", "f", "g", "h", "i", "j", "k", "l", "m", "n", "o", "p", "q", "r", "s", "t", "u", "v", "w", "x", "y", "z">>

\* str.lower(), one character
LowerChar(c) ==
  IF \E i \in 1..Len(UpperAlpha) : UpperAlpha[i] = c
  THEN LowerAlpha[CHOOSE i \in 1..Len(UpperAlpha) : UpperAlpha[i] = c]
  ELSE c

\* str.lower()
Lower(cs) == [i \in 1..Len(cs) |-> LowerChar(cs[i])]

\* needle in hay (substring test)
Contains(hay, needle) ==
  \E i \in 0..(Len(hay) - Len(needle)) :
    \A j \in 1..Len(needle) : hay[i + j] = needle[j]

IsSpace(c) == c \in {" ", "\t", "\n"}

RECURSIVE LStrip(_)
LStrip(cs) == IF cs # <<>> /\ IsSpace(Head(cs)) THEN LStrip(Tail(cs)) ELSE cs

RECURSIVE RStrip(_)
RStrip(cs) ==
  IF cs # <<>> /\ IsSpace(cs[Len(cs)]) THEN RStrip(SubSeq(cs, 1, Len(cs) - 1)) ELSE cs

\* str.strip()
Strip(cs) == RStrip(LStrip(cs))

\* s.split(sep)[0]: the part before the first sep
RECURSIVE BeforeFirst(_, _)
BeforeFirst(cs, sep) ==
  IF cs = <<>> \/ Head(cs) = sep THEN <<>> ELSE <<Head(cs)>> \o BeforeFirst(Tail(cs), sep)

\* s.split()[0] of a non-blank s: the first whitespace-separated word
RECURSIVE UntilSpace(_)
UntilSpace(cs) ==
  IF cs = <<>> \/ IsSpace(Head(cs)) THEN <<>> ELSE <<Head(cs)>> \o UntilSpace(Tail(cs))

FirstWord(cs) == UntilSpace(LStrip(cs))


\* ------------------------------------------------- template reply generator

SocialWords ==
  { <<"d", "i", "n", "n", "e", "r">>,
    <<"l", "u", "n", "c", "h">>,
    <<"c", "o", "f", "f", "e", "e">>,
    <<"d", "r", "i", "n", "k">>,
    <<"h", "a", "n", "g", " ", "o", "u", "t">>,
    <<"m", "e", "e", "t", " ", "u", "p">> }

AvailabilityWords ==
  { <<"f", "r", "e", "e">>,
    <<"a", "v", "a", "i", "l", "a", "b", "l", "e">>,
    <<"t", "i", "m", "e">>,
    <<"w", "h", "e", "n">>,
    <<"s", "c", "h", "e", "d", "u", "l", "e">> }

WorkWords ==
  { <<"l", "e", "a", "v", "e">>,
    <<"o", "f", "f", "i", "c", "e">>,
    <<"w", "o", "r", "k">>,
    <<"m", "e", "e", "t", "i", "n", "g">>,
    <<"p", "r", "o", "j", "e", "c", "t">> }

MeetingWords ==
  { <<"c", "a", "l", "l">>,
    <<"a", "p", "p", "o", "i", "n", "t", "m", "e", "n", "t">>,
    <<"z", "o", "o", "m">>,
    <<"t", "e", "a", "m", "s">> }

BusinessWords ==
  { <<"b", "u", "s", "i", "n", "e", "s", "s">>,
    <<"c", "o", "l", "l", "a", "b", "o", "r", "a", "t", "i", "o", "n">>,
    <<"p", "r", "o", "p", "o", "s", "a", "l">> }

UrgentWords ==
  { <<"u", "r", "g", "e", "n", "t">>,
    <<"a", "s", "a", "p">>,
    <<"e", "m", "e", "r", "g", "e", "n", "c", "y">>,
    <<"i", "m", "m", "e", "d", "i", "a", "t", "e">>,
    <<"i", "m", "p", "o", "r", "t", "a", "n", "t">> }

QuestionWords ==
  { <<"q", "u", "e", "s", "t", "i", "o", "n">>,
    <<"h", "e", "l", "p">>,
    <<"s", "u", "p", "p", "o", "r", "t">>,
    <<"h", "o", "w">>,
    <<"w", "h", "a", "t">>,
    <<"w", "h", "y">>,
    <<"?">> }

SocialReply == ",\\n\\nThank you for the invitation! I'd love to catch up. Let me check my schedule and I'll get back to you shortly with some available times.\\n\\nLooking forward to it!\\n\\nBest regards,\\nYash"

AvailabilityReply == ",\\n\\nThanks for reaching out about my availability. I'll review my calendar and send you some time slots that work for both of us.\\n\\nI'll get back to you within a few hours.\\n\\nBest regards,\\nYash"

WorkReply == ",\\n\\nThank you for your message regarding work matters. I've received your request and will review it promptly.\\n\\nI'll respond with the necessary information soon.\\n\\nBest regards,\\nYash"

MeetingReply == ",\\n\\nThank you for reaching out about scheduling a meeting. I'll review my calendar and get back to you shortly with my availability.\\n\\nBest regards,\\nYash"

BusinessReply == ",\\n\\nThank you for your message regarding the business opportunity. I'm interested in learning more about this collaboration.\\n\\nI'll review the details and respond with my thoughts soon.\\n\\nBest regards,\\nYash"

UrgentReply == ",\\n\\nI've received your urgent message and will prioritize reviewing it immediately. You can expect a detailed response within the next hour.\\n\\nBest regards,\\nYash"

QuestionReply == ",\\n\\nThank you for your question. I'll look into this and provide you with a comprehensive answer shortly.\\n\\nBest regards,\\nYash"

DefaultReply == ",\\n\\nThank you for your email. I've received your message and will review it carefully. I'll get back to you with a detailed response soon.\\n\\nBest regards,\\nYash"

\* The keyword sets and their templates, in the order of the if/elif chain.
Categories ==
  << [words |-> SocialWords, template |-> SocialReply],
     [words |-> AvailabilityWords, template |-> AvailabilityReply],
     [words |-> WorkWords, template |-> WorkReply],
     [words |-> MeetingWords, template |-> MeetingReply],
     [words |-> BusinessWords, template |-> BusinessReply],
     [words |-> UrgentWords, template |-> UrgentReply],
     [words |-> QuestionWords, template |-> QuestionReply] >>

\* TemplateReply with the urgency test moved in front of the others.
TemplateReplyUrgentFirst(sender_field, subject_field, body_field) ==
  IF sender_field = None
  THEN [raised |-> TRUE, error |-> "TypeError", value |-> None]
  ELSE
    LET subject == Lower(Chars(subject_field))
        body == Lower(Chars(body_field))
        sender == Chars(sender_field)
        name_part == Strip(BeforeFirst(sender, "<"))
        sender_name ==
          IF Contains(sender, <<"<">>) /\ name_part # <<>>
          THEN Str(FirstWord(name_part))
          ELSE "there"
        content == subject \o <<" ">> \o body
        any(words) == \E word \in words : Contains(content, word)
        template ==
          IF any(UrgentWords) THEN UrgentReply
          ELSE IF any(SocialWords) THEN SocialReply
          ELSE IF any(AvailabilityWords) THEN AvailabilityReply
          ELSE IF any(WorkWords) THEN WorkReply
          ELSE IF any(MeetingWords) THEN MeetingReply
          ELSE IF any(BusinessWords) THEN BusinessReply
          ELSE IF any(QuestionWords) THEN QuestionReply
          ELSE DefaultReply
    IN [raised |-> FALSE, error |-> None, value |-> "Dear " \o sender_name \o template]

\* The body of generate_improved_mock_reply on the three fields it reads:
\* the reply template of the first category whose keywords occur in the
\* lower-cased "subject body".  A sender of None makes '<' in sender raise
\* TypeError.
TemplateReply(sender_field, subject_field, body_field) ==
  IF sender_field = None
  THEN [raised |-> TRUE, error |-> "TypeError", value |-> None]
  ELSE
    LET subject == Lower(Chars(subject_field))
        body == Lower(Chars(body_field))
        sender == Chars(sender_field)
        name_part == Strip(BeforeFirst(sender, "<"))
        sender_name ==
          IF Contains(sender, <<"<">>) /\ name_part # <<>>
          THEN Str(FirstWord(name_part))
          ELSE "there"
        content == subject \o <<" ">> \o body
        any(words) == \E word \in words : Contains(content, word)
        template ==
          IF any(SocialWords) THEN SocialReply
          ELSE IF any(AvailabilityWords) THEN AvailabilityReply
          ELSE IF any(WorkWords) THEN WorkReply
          ELSE IF any(MeetingWords) THEN MeetingReply
          ELSE IF any(BusinessWords) THEN BusinessReply
          ELSE IF any(UrgentWords) THEN UrgentReply
          ELSE IF any(QuestionWords) THEN QuestionReply
          ELSE DefaultReply
    IN [raised |-> FALSE, error |-> None, value |-> "Dear " \o sender_name \o template]

\* The email_data a direct call of the template generator is given.
MockSenders == {"Jane Doe <jane@x.com>", "bob@x.com", None}
MockSubjects == {"Urgent", "Quick coffee?", "Report", "Proposal"}
MockBodies ==
  {"", "Are you free Thursday?", "see attached", "Zoom call ASAP", "Project meeting",
   "Lunch is urgent", "Why?"}
MockInputs == [sender : MockSenders, subject : MockSubjects, body : MockBodies]

\* The messages that can arrive.  The second has no From header.
Mails ==
  { [sender |-> "Jane Doe <jane@x.com>", subject |-> "Quick coffee?", body |-> "Are you free Thursday?"],
    [sender |-> None, subject |-> "Urgent", body |-> ""] }

\* TemplateReply of every message and every direct input, computed once
\* (f @@ <<>> is f as an explicit table).
TemplateReplies ==
  [m \in Mails \cup MockInputs |-> TemplateReply(m.sender, m.subject, m.body)] @@ <<>>

\* generate_improved_mock_reply
generate_improved_mock_reply(email_data) ==
  LET m == [sender |-> email_data.sender, subject |-> email_data.subject,
            body |-> email_data.body]
  IN IF m \in DOMAIN TemplateReplies THEN TemplateReplies[m]
     ELSE TemplateReply(m.sender, m.subject, m.body)

\* ------------------------------------------------------ generation service
\* What one generate_content call can answer: a text, or an exception whose
\* message is the service's error payload.
ServiceTexts == {" Noted, thanks. "}
\* response.text.strip() of every text, computed once
StrippedTexts == [t \in ServiceTexts |-> Str(Strip(Chars(t)))] @@ <<>>
ServiceErrors == {"429 quota exceeded", "400 API key not valid: key=AIza-SECRET"}
ServiceOutcomes ==
  [ok : {TRUE}, text : ServiceTexts, error : {None}]
    \cup [ok : {FALSE}, text : {None}, error : ServiceErrors]

\* A log line: logger.<level>(msg) with arg the value an f-string put in it.
LogLine(level, msg, arg) == [level |-> level, msg |-> msg, arg |-> arg]

\* setup_gemini: returns whether the client was initialised; the model object
\* is assigned before the test call is made.
setup_gemini(available, cfg, test) ==
  IF ~available
  THEN [result |-> FALSE, gemini_model |-> None,
        log |-> <<LogLine("INFO", "Google Generative AI library not available - using mock responses", None)>>]
  ELSE IF cfg.api_key = None \/ cfg.api_key = "your-gemini-api-key-here"
  THEN [result |-> FALSE, gemini_model |-> None,
        log |-> <<LogLine("INFO", "No Gemini API key configured - using mock responses", None)>>]
  ELSE IF test.ok
  THEN [result |-> TRUE, gemini_model |-> "models/gemini-2.5-flash",
        log |-> <<LogLine("INFO", "Google Gemini (gemini-2.5-flash) initialized successfully", None)>>]
  ELSE [result |-> FALSE, gemini_model |-> "models/gemini-2.5-flash",
        log |-> <<LogLine("ERROR", "Failed to setup Gemini - check API key configuration", None)>>]

\* generate_gemini_reply: the service's text, stripped; on any exception in
\* the try block the error is logged and the template reply is returned.
generate_gemini_reply(email_data, answer) ==
  LET mock == generate_improved_mock_reply(email_data)
      failed(e, called) ==
        [raised |-> mock.raised, value |-> mock.value,
         service_called |-> called, from_service |-> FALSE, call_failed |-> TRUE,
         log |-> <<LogLine("ERROR", "Gemini reply generation failed: ", e)>>]
  IN IF email_data.sender = None
     THEN failed("TypeError", FALSE)
     ELSE IF answer.ok
     THEN [raised |-> FALSE, value |-> StrippedTexts[answer.text],
           service_called |-> TRUE, from_service |-> TRUE, call_failed |-> FALSE,
           log |-> <<LogLine("INFO", "Generated Gemini AI reply", None)>>]
     ELSE failed(answer.error, TRUE)

\* The test both generate_ai_reply and the chat commands make.
UseService(cfg, model) == cfg.ai_enabled /\ model # None

\* generate_ai_reply
generate_ai_reply(cfg, model, email_data, answer) ==
  IF UseService(cfg, model)
  THEN generate_gemini_reply(email_data, answer)
  ELSE LET mock == generate_improved_mock_reply(email_data)
       IN [raised |-> mock.raised, value |-> mock.value,
           service_called |-> FALSE, from_service |-> FALSE, call_failed |-> FALSE,
           log |-> <<>>]

\* ------------------------------------------------------------------ state
VARIABLES
  GEMINI_AVAILABLE,   \* module global: the generation library was imported
  config,             \* self.config, the fields the code reads
  pc,                 \* where the process is
  imap_conn,          \* self.imap_conn: None, or the state of the read session
  smtp_conn,          \* self.smtp_conn: None, or the state of the submission session
  processed_emails,   \* self.processed_emails
  gemini_model,       \* self.gemini_model
  inbox,              \* mail server: the messages, message n at index n
  unseen,             \* mail server: the numbers of the messages flagged unseen
  new_emails,         \* process_emails: the batch of the current poll cycle
  idx,                \* process_emails: position of the reply loop in the batch
  pending_emails,     \* front end: pending_emails, operator -> draft
  read_emails,        \* front end: context.user_data.get('read_emails', []) per operator
  setup_result,       \* what setup_gemini returned (the constructor drops it)
  log,                \* the last step's log lines on the generation-service paths
  smtp_calls,         \* send_reply / send_custom_email calls of the current cycle or command
  gen_errors,         \* ids of the current cycle whose reply generation raised
  reply_attempts,     \* the send_reply calls of the whole run: message id and result
  last_gen,           \* the last step's reply generation: its input and its result
  replies,            \* front end: reply_text calls of the last command
  cleanup_done,       \* once cleanup ran: whether it raised, and which operation failed
  ncmds,              \* front end: command updates received so far
  last_cmd,           \* front end: the last command, its operator and arguments
  mock_calls,         \* direct calls of generate_improved_mock_reply: input and result
  fetch_failed        \* process_emails: ids whose fetch or parsing failed in the last cycle

vars == <<GEMINI_AVAILABLE, config, pc, imap_conn, smtp_conn, processed_emails,
          gemini_model, inbox, unseen, new_emails, idx, pending_emails,
          read_emails, setup_result, log, smtp_calls, gen_errors, reply_attempts,
          last_gen, replies, cleanup_done, ncmds, last_cmd, mock_calls,
          fetch_failed>>

agent_vars == <<imap_conn, smtp_conn, processed_emails, gemini_model>>
server_vars == <<inbox, unseen>>
poll_vars == <<new_emails, idx, gen_errors, reply_attempts, cleanup_done, fetch_failed>>
bot_vars == <<pending_emails, read_emails, replies, ncmds, last_cmd>>

Operators == {101, 102}

ApiKeys == {"your-gemini-api-key-here", "AIza-SECRET"}

Configs ==
  [auto_reply : BOOLEAN, max_emails_per_check : 0..MaxLimit,
   ai_enabled : BOOLEAN, api_key : ApiKeys]

\* The library/configuration combinations a run starts from: library
\* missing, placeholder key, service disabled, service enabled.
Startups ==
  { s \in [available : BOOLEAN, config : Configs] :
      \/ s.available /\ s.config.api_key = "AIza-SECRET"
      \/ s.available /\ s.config.ai_enabled
      \/ s.config.ai_enabled /\ s.config.api_key = "AIza-SECRET" }

\* No message, and no reply generation.
NoEmail == [id |-> None, subject |-> None, sender |-> None, body |-> None]
NoGen == [email |-> NoEmail, raised |-> FALSE, value |-> None, service_called |-> FALSE,
          from_service |-> FALSE, call_failed |-> FALSE]

\* cleanup has not run.
NoCleanup == [ran |-> FALSE, raised |-> FALSE, failed |-> "none"]

\* A dict key that is absent; an absent draft reads as None.
Absent == <<>>

Init ==
  /\ \E s \in Startups : GEMINI_AVAILABLE = s.available /\ config = s.config
  /\ pc = "new"
  /\ imap_conn = None
  /\ smtp_conn = None
  /\ processed_emails = {}
  /\ gemini_model = None
  /\ inbox = <<>>
  /\ unseen = {}
  /\ new_emails = <<>>
  /\ idx = 1
  /\ pending_emails = [u \in Operators |-> Absent]
  /\ read_emails = [u \in Operators |-> Absent]
  /\ setup_result = FALSE
  /\ log = <<>>
  /\ smtp_calls = <<>>
  /\ gen_errors = {}
  /\ reply_attempts = <<>>
  /\ last_gen = NoGen
  /\ replies = <<>>
  /\ cleanup_done = NoCleanup
  /\ ncmds = 0
  /\ last_cmd = [name |-> None, user |-> 0, args |-> <<>>]
  /\ mock_calls = <<>>
  /\ fetch_failed = {}

\* The process is past its startup and not yet stopped.
Running == {"polling", "replying", "serving"}

\* ------------------------------------------------------------ mail server
\* (the mailbox is followed from the moment the process is up: a message
\* that was there before is one that arrives before the first poll)
\* A message arrives and is flagged unseen.
Arrive ==
  /\ pc \in Running
  /\ Len(inbox) < MaxMsgs
  /\ \E m \in Mails :
       /\ inbox' = Append(inbox, m)
       /\ unseen' = unseen \cup {Len(inbox) + 1}
  /\ UNCHANGED <<GEMINI_AVAILABLE, config, mock_calls, pc, agent_vars, poll_vars, bot_vars,
                 setup_result, smtp_calls>>
  /\ log' = <<>>
  /\ last_gen' = NoGen

\* The server drops a message's unseen flag (its body was fetched, or another
\* mail client read it).
MarkSeen ==
  /\ pc \in Running
  /\ \E n \in unseen : unseen' = unseen \ {n}
  /\ UNCHANGED <<inbox, GEMINI_AVAILABLE, config, mock_calls, pc, agent_vars, poll_vars, bot_vars,
                 setup_result, smtp_calls>>
  /\ log' = <<>>
  /\ last_gen' = NoGen

\* ----------------------------------------------------------- construction
\* EmailToEmailAgent.__init__: the fields are set and setup_gemini runs.
Construct ==
  /\ pc = "new"
  /\ \E test \in ServiceOutcomes :
       LET s == setup_gemini(GEMINI_AVAILABLE, config, test)
       IN /\ gemini_model' = s.gemini_model
          /\ setup_result' = s.result
          /\ log' = s.log
  /\ imap_conn' = None
  /\ smtp_conn' = None
  /\ processed_emails' = {}
  /\ pc' = "constructed"
  /\ UNCHANGED <<GEMINI_AVAILABLE, config, mock_calls, server_vars, poll_vars, bot_vars,
                 smtp_calls, last_gen>>

\* connect_email: how far the two logins get.  A connection object is
\* assigned as soon as it is created, before its login.
ConnectOutcomes ==
  {"ok", "imap_connect_fails", "imap_login_fails", "smtp_connect_fails", "smtp_login_fails"}

connect_email(imap, smtp, outcome) ==
  CASE outcome = "imap_connect_fails" -> [ok |-> FALSE, imap_conn |-> imap, smtp_conn |-> smtp]
    [] outcome = "imap_login_fails" -> [ok |-> FALSE, imap_conn |-> "noauth", smtp_conn |-> smtp]
    [] outcome = "smtp_connect_fails" -> [ok |-> FALSE, imap_conn |-> "open", smtp_conn |-> smtp]
    [] outcome = "smtp_login_fails" -> [ok |-> FALSE, imap_conn |-> "open", smtp_conn |-> "noauth"]
    [] outcome = "ok" -> [ok |-> TRUE, imap_conn |-> "open", smtp_conn |-> "open"]

\* ---------------------------------------------------------- reading mail
\* bytes.decode() of a message number: its decimal text
decode(n) == ToString(n)

RECURSIVE SortedSeq(_)
SortedSeq(S) ==
  IF S = {} THEN <<>>
  ELSE LET lo == CHOOSE x \in S : \A y \in S : x <= y
       IN <<lo>> \o SortedSeq(S \ {lo})

\* seq[-n:] for n >= 0 (Python: -0 is 0, so seq[-0:] is the whole list)
LastN(seq, n) ==
  IF n = 0 \/ n >= Len(seq) THEN seq ELSE SubSeq(seq, Len(seq) - n + 1, Len(seq))

FetchOutcomes == {"OK", "NO", "raises"}

\* FetchLoop without the processed_emails.add of a fetched id.
RECURSIVE FetchLoopNoAdd(_, _, _, _, _)
FetchLoopNoAdd(ids, fetch, box, found, processed) ==
  IF ids = <<>> THEN [new_emails |-> found, processed_emails |-> processed]
  ELSE LET email_id == Head(ids)
           email_data == [id |-> decode(email_id), subject |-> box[email_id].subject,
                          sender |-> box[email_id].sender, body |-> box[email_id].body]
       IN IF decode(email_id) \in processed \/ fetch[email_id] # "OK"
          THEN FetchLoopNoAdd(Tail(ids), fetch, box, found, processed)
          ELSE FetchLoopNoAdd(Tail(ids), fetch, box, Append(found, email_data), processed)

\* FetchLoop that ends at the first fetch that fails.
RECURSIVE FetchLoopAbort(_, _, _, _, _)
FetchLoopAbort(ids, fetch, box, found, processed) ==
  IF ids = <<>> THEN [new_emails |-> found, processed_emails |-> processed]
  ELSE LET email_id == Head(ids)
           email_data == [id |-> decode(email_id), subject |-> box[email_id].subject,
                          sender |-> box[email_id].sender, body |-> box[email_id].body]
       IN IF decode(email_id) \in processed
          THEN FetchLoopAbort(Tail(ids), fetch, box, found, processed)
          ELSE IF fetch[email_id] # "OK"
          THEN [new_emails |-> found, processed_emails |-> processed]
          ELSE FetchLoopAbort(Tail(ids), fetch, box, Append(found, email_data),
                              processed \cup {decode(email_id)})

\* The loop of read_new_emails over ids: skip the processed ones, fetch,
\* and on success append the message and add its id to processed.
RECURSIVE FetchLoop(_, _, _, _, _)
FetchLoop(ids, fetch, box, found, processed) ==
  IF ids = <<>> THEN [new_emails |-> found, processed_emails |-> processed]
  ELSE LET email_id == Head(ids)
           email_data == [id |-> decode(email_id), subject |-> box[email_id].subject,
                          sender |-> box[email_id].sender, body |-> box[email_id].body]
       IN IF decode(email_id) \in processed \/ fetch[email_id] # "OK"
          THEN FetchLoop(Tail(ids), fetch, box, found, processed)
          ELSE FetchLoop(Tail(ids), fetch, box, Append(found, email_data),
                         processed \cup {decode(email_id)})

\* The ids one read_new_emails call looks at: the last max_emails of the
\* UNSEEN search result.
Window(cfg, unseen_ids) == LastN(SortedSeq(unseen_ids), cfg.max_emails_per_check)

\* The ids one read_new_emails call fetches: those of the window that are
\* not in processed.
ToFetch(cfg, unseen_ids, processed) ==
  LET w == Window(cfg, unseen_ids)
  IN {w[i] : i \in {j \in 1..Len(w) : decode(w[j]) \notin processed}}

SearchOutcomes == {"OK", "NO", "raises"}

\* read_new_emails
read_new_emails(cfg, imap, processed, box, unseen_ids, search, fetch) ==
  IF imap # "open" \/ search # "OK"
  THEN [new_emails |-> <<>>, processed_emails |-> processed]
  ELSE FetchLoop(Window(cfg, unseen_ids), fetch, box, <<>>, processed)

\* ------------------------------------------------------------ polling agent
\* run, up to the poll loop: connect or exit.
Run ==
  /\ pc = "constructed"
  /\ \E outcome \in ConnectOutcomes :
       LET c == connect_email(imap_conn, smtp_conn, outcome)
       IN /\ imap_conn' = c.imap_conn
          /\ smtp_conn' = c.smtp_conn
          /\ pc' = IF c.ok THEN "polling" ELSE "exited"
          /\ log' = <<>>
  /\ UNCHANGED <<GEMINI_AVAILABLE, config, mock_calls, processed_emails, gemini_model, server_vars,
                 poll_vars, bot_vars, setup_result, smtp_calls, last_gen>>

\* process_emails, up to its reply loop: one poll cycle starts.
ProcessEmails ==
  /\ pc = "polling"
  /\ IF ~config.auto_reply
     THEN /\ log' = <<>>
          /\ UNCHANGED <<processed_emails, new_emails, idx, smtp_calls, gen_errors, pc,
                         fetch_failed>>
     ELSE \E search \in SearchOutcomes, fetch \in [ToFetch(config, unseen, processed_emails) -> FetchOutcomes] :
            LET r == read_new_emails(config, imap_conn, processed_emails, inbox, unseen,
                                     search, fetch)
            IN /\ processed_emails' = r.processed_emails
               /\ new_emails' = r.new_emails
               /\ idx' = 1
               /\ smtp_calls' = <<>>
               /\ gen_errors' = {}
               /\ log' = <<>>
               /\ pc' = IF r.new_emails = <<>> THEN "polling" ELSE "replying"
               /\ fetch_failed' =
                    IF imap_conn = "open" /\ search = "OK"
                    THEN {decode(n) : n \in {k \in DOMAIN fetch : fetch[k] # "OK"}}
                    ELSE {}
  /\ UNCHANGED <<GEMINI_AVAILABLE, config, mock_calls, imap_conn, smtp_conn, gemini_model, server_vars,
                 reply_attempts, cleanup_done, bot_vars, setup_result>>
  /\ last_gen' = NoGen

SendOutcomes == {"ok", "raises"}

\* send_reply: no call to the server without a submission session; else one
\* sendmail to the original sender, subject "Re: " + the original subject.
send_reply(smtp, original_email, reply_text, outcome) ==
  IF smtp = None THEN [ok |-> FALSE, sendmail |-> FALSE]
  ELSE [ok |-> smtp = "open" /\ outcome = "ok", sendmail |-> TRUE]

\* ReplyCall with the subject left as it came.
ReplyCallNoPrefix(original_email, reply_text, ok) ==
  [fn |-> "send_reply", id |-> original_email.id, to |-> original_email.sender,
   subject |-> original_email.subject, body |-> reply_text, ok |-> ok]

\* The record of one send_reply call.
ReplyCall(original_email, reply_text, ok) ==
  [fn |-> "send_reply", id |-> original_email.id, to |-> original_email.sender,
   subject |-> "Re: " \o original_email.subject, body |-> reply_text, ok |-> ok]

\* One pass of the reply loop of process_emails: generate, then send.  An
\* exception of the pass is logged and the loop goes on.
ReplyStep ==
  /\ pc = "replying"
  /\ \E answer \in ServiceOutcomes, outcome \in SendOutcomes :
       LET email_data == new_emails[idx]
           g == generate_ai_reply(config, gemini_model, email_data, answer)
           s == send_reply(smtp_conn, email_data, g.value, outcome)
       IN /\ last_gen' = [email |-> email_data, raised |-> g.raised, value |-> g.value,
                          service_called |-> g.service_called,
                          from_service |-> g.from_service, call_failed |-> g.call_failed]
          /\ IF g.raised
             THEN /\ gen_errors' = gen_errors \cup {email_data.id}
                  /\ log' = g.log
                  /\ UNCHANGED <<smtp_calls, reply_attempts>>
             ELSE /\ smtp_calls' = Append(smtp_calls, ReplyCall(email_data, g.value, s.ok))
                  /\ reply_attempts' = Append(reply_attempts, [id |-> email_data.id, ok |-> s.ok])
                  /\ log' = g.log
                  /\ UNCHANGED gen_errors
  /\ idx' = idx + 1
  /\ pc' = IF idx = Len(new_emails) THEN "polling" ELSE "replying"
  /\ UNCHANGED <<GEMINI_AVAILABLE, config, mock_calls, agent_vars, server_vars, new_emails,
                 cleanup_done, bot_vars, setup_result, fetch_failed>>

\* The one operation of cleanup that raises when it is executed, if any.
CleanupFailures == {"none", "close", "logout", "quit"}

\* cleanup: close and logout of the read session, quit of the submission
\* session, all in one try block: the first exception skips the rest and is
\* logged as a warning.
cleanup(imap, smtp, failing) ==
  IF imap # None /\ failing \in {"close", "logout"}
  THEN [imap_conn |-> imap, smtp_conn |-> smtp, raised |-> FALSE, failed |-> failing]
  ELSE LET imap_after == IF imap # None THEN "closed" ELSE imap
       IN IF smtp # None /\ failing = "quit"
          THEN [imap_conn |-> imap_after, smtp_conn |-> smtp, raised |-> FALSE,
                failed |-> failing]
          ELSE [imap_conn |-> imap_after,
                smtp_conn |-> IF smtp # None THEN "closed" ELSE smtp,
                raised |-> FALSE, failed |-> "none"]

\* KeyboardInterrupt in the poll loop: run logs it and its finally clause
\* calls cleanup.
Interrupt ==
  /\ pc \in {"polling", "replying"}
  /\ \E failing \in CleanupFailures :
       LET c == cleanup(imap_conn, smtp_conn, failing)
       IN /\ imap_conn' = c.imap_conn
          /\ smtp_conn' = c.smtp_conn
          /\ cleanup_done' = [ran |-> TRUE, raised |-> c.raised, failed |-> c.failed]
          /\ log' = <<>>
          /\ last_gen' = NoGen
  /\ pc' = "stopped"
  /\ UNCHANGED <<GEMINI_AVAILABLE, config, mock_calls, processed_emails, gemini_model, server_vars,
                 new_emails, idx, gen_errors, reply_attempts, bot_vars, setup_result,
                 smtp_calls, fetch_failed>>

Next ==
  \/ Arrive
  \/ MarkSeen
  \/ Construct
  \/ Run
  \/ ProcessEmails
  \/ ReplyStep
  \/ Interrupt

Spec == Init /\ [][Next]_vars

\* ------------------------------------------------------------ chat front end
\* telegram_email_bot.py, module level: the agent is constructed (Construct)
\* and connect_email is called, its result dropped.
BotStart ==
  /\ pc = "constructed"
  /\ \E outcome \in ConnectOutcomes :
       LET c == connect_email(imap_conn, smtp_conn, outcome)
       IN /\ imap_conn' = c.imap_conn
          /\ smtp_conn' = c.smtp_conn
  /\ pc' = "serving"
  /\ log' = <<>>
  /\ UNCHANGED <<GEMINI_AVAILABLE, config, mock_calls, processed_emails, gemini_model, server_vars,
                 poll_vars, bot_vars, setup_result, smtp_calls, last_gen>>

\* main: the command names a handler is registered for.
Registered == {"mail", "approve", "cancel", "read", "reply"}

\* The dispatcher hands operator u's command to the handler registered for
\* its name.
Dispatch(name, u, args) ==
  /\ pc = "serving"
  /\ ncmds < MaxCmds
  /\ ncmds' = ncmds + 1
  /\ last_cmd' = [name |-> name, user |-> u, args |-> args]

\* " ".join(words)
RECURSIVE Join(_)
Join(words) ==
  IF words = <<>> THEN ""
  ELSE IF Len(words) = 1 THEN words[1]
  ELSE words[1] \o " " \o Join(Tail(words))

\* str(x) as an f-string renders it
Fmt(x) == IF x = None THEN "None" ELSE x

PreviewTail == "\n\nReply /approve to send or /cancel to abort."

\* Argument lists of /mail.
MailArgs == { <<"a@x.com">>, <<"a@x.com", "see", "you">>, <<"b@x.com", "hi">> }

\* mail_command: with a recipient and a text, store the draft and preview it.
mail_command(u, args) ==
  /\ Dispatch("mail", u, args)
  /\ IF Len(args) < 2
     THEN /\ replies' = <<"Usage: /mail recipient@example.com message">>
          /\ UNCHANGED pending_emails
     ELSE LET recipient == args[1]
              subject == "Message from Telegram"
              body == Join(Tail(args))
          IN /\ pending_emails' = [pending_emails EXCEPT ![u] = <<recipient, subject, body>>]
             /\ replies' = <<"Preview:\nTo: " \o recipient \o "\nSubject: " \o subject
                             \o "\nBody: " \o body \o PreviewTail>>
  /\ smtp_calls' = <<>>
  /\ log' = <<>>
  /\ last_gen' = NoGen
  /\ UNCHANGED <<GEMINI_AVAILABLE, config, mock_calls, pc, agent_vars, server_vars, poll_vars,
                 read_emails, setup_result>>

\* Argument lists of /schedule.
ScheduleArgs == { <<"a@x.com">>, <<"a@x.com", "sync", "Friday">> }

\* schedule_command's body when the service is not used
ScheduleBody(meeting_details) ==
  "Dear Sir/Madam,\n\nI would like to schedule a meeting regarding: " \o meeting_details
    \o ".\nPlease let me know your availability.\n\nBest regards,\nYash"

\* schedule_command: with a recipient and details, store a meeting-request
\* draft, its body from the service when that is in use, and preview it.
schedule_command(u, args) ==
  /\ Dispatch("schedule", u, args)
  /\ IF Len(args) < 2
     THEN /\ replies' = <<"Usage: /schedule recipient@example.com meeting details">>
          /\ log' = <<>>
          /\ last_gen' = NoGen
          /\ UNCHANGED pending_emails
     ELSE \E answer \in ServiceOutcomes :
            LET recipient == args[1]
                meeting_details == Join(Tail(args))
                email_data == [id |-> None, sender |-> "Telegram",
                               subject |-> "Meeting Request", body |-> meeting_details]
                g == IF UseService(config, gemini_model)
                     THEN generate_gemini_reply(email_data, answer)
                     ELSE [raised |-> FALSE, value |-> ScheduleBody(meeting_details),
                           service_called |-> FALSE, from_service |-> FALSE,
                           call_failed |-> FALSE, log |-> <<>>]
                subject == "Meeting Request"
            IN /\ last_gen' = [email |-> email_data, raised |-> g.raised, value |-> g.value,
                               service_called |-> g.service_called,
                               from_service |-> g.from_service,
                               call_failed |-> g.call_failed]
               /\ log' = g.log
               /\ pending_emails' = [pending_emails EXCEPT ![u] = <<recipient, subject, g.value>>]
               /\ replies' = <<"Preview:\nTo: " \o recipient \o "\nSubject: " \o subject
                               \o "\nBody: " \o g.value \o PreviewTail>>
  /\ smtp_calls' = <<>>
  /\ UNCHANGED <<GEMINI_AVAILABLE, config, mock_calls, pc, agent_vars, server_vars, poll_vars,
                 read_emails, setup_result>>

\* A /schedule update from operator u.  main registers no handler under
\* that name, so no handler runs: the update is dropped and nothing is
\* answered.
schedule(u, args) ==
  IF "schedule" \in Registered
  THEN schedule_command(u, args)
  ELSE /\ pc = "serving"
       /\ ncmds < MaxCmds
       /\ ncmds' = ncmds + 1
       /\ last_cmd' = [name |-> "schedule", user |-> u, args |-> args]
       /\ replies' = <<>>
       /\ smtp_calls' = <<>>
       /\ log' = <<>>
       /\ last_gen' = NoGen
       /\ UNCHANGED <<GEMINI_AVAILABLE, config, mock_calls, pc, agent_vars, server_vars, poll_vars,
                      pending_emails, read_emails, setup_result>>

\* send_custom_email: reconnects when there is no submission session, then
\* one sendmail inside a try block.
send_custom_email(imap, smtp, recipient, subject, body, reconnect, outcome) ==
  LET c == IF smtp = None THEN connect_email(imap, smtp, reconnect)
           ELSE [ok |-> TRUE, imap_conn |-> imap, smtp_conn |-> smtp]
  IN [ok |-> c.smtp_conn = "open" /\ outcome = "ok",
      imap_conn |-> c.imap_conn, smtp_conn |-> c.smtp_conn]

\* The record of one send_custom_email call.
CustomCall(recipient, subject, body, ok) ==
  [fn |-> "send_custom_email", id |-> None, to |-> recipient, subject |-> subject,
   body |-> body, ok |-> ok]

\* pop that reads the value and leaves the key in the dict (dict.get).
popKeeps(d, key) == [value |-> d[key], dict |-> d]

\* pop that empties the dict (dict.clear).
popClears(d, key) == [value |-> d[key], dict |-> [k \in DOMAIN d |-> Absent]]

\* dict.pop(key, None): the value removed, and the dict without the key
pop(d, key) == [value |-> d[key], dict |-> [d EXCEPT ![key] = Absent]]

\* approve_command that sends the draft first and removes it only when the
\* send succeeded.
approve_commandSendFirst(u) ==
  /\ Dispatch("approve", u, <<>>)
  /\ LET data == pending_emails[u]
     IN IF data # Absent
        THEN \E reconnect \in (IF smtp_conn = None THEN ConnectOutcomes ELSE {"ok"}),
                outcome \in SendOutcomes :
               LET s == send_custom_email(imap_conn, smtp_conn, data[1], data[2], data[3],
                                          reconnect, outcome)
               IN /\ imap_conn' = s.imap_conn
                  /\ smtp_conn' = s.smtp_conn
                  /\ smtp_calls' = <<CustomCall(data[1], data[2], data[3], s.ok)>>
                  /\ replies' = <<IF s.ok THEN "Email sent!" ELSE "Failed to send email.">>
                  /\ pending_emails' = IF s.ok THEN pop(pending_emails, u).dict
                                       ELSE pending_emails
        ELSE /\ replies' = <<"No pending email to approve.">>
             /\ smtp_calls' = <<>>
             /\ UNCHANGED <<imap_conn, smtp_conn, pending_emails>>
  /\ log' = <<>>
  /\ last_gen' = NoGen
  /\ UNCHANGED <<GEMINI_AVAILABLE, config, mock_calls, pc, processed_emails, gemini_model,
                 server_vars, poll_vars, read_emails, setup_result>>

\* approve_command: the draft is popped, then sent.
approve_command(u) ==
  /\ Dispatch("approve", u, <<>>)
  /\ LET popped == pop(pending_emails, u)
         data == popped.value
     IN /\ pending_emails' = popped.dict
        /\ IF data # Absent
           THEN \E reconnect \in (IF smtp_conn = None THEN ConnectOutcomes ELSE {"ok"}),
                   outcome \in SendOutcomes :
                  LET s == send_custom_email(imap_conn, smtp_conn, data[1], data[2], data[3],
                                             reconnect, outcome)
                  IN /\ imap_conn' = s.imap_conn
                     /\ smtp_conn' = s.smtp_conn
                     /\ smtp_calls' = <<CustomCall(data[1], data[2], data[3], s.ok)>>
                     /\ replies' = <<IF s.ok THEN "Email sent!" ELSE "Failed to send email.">>
           ELSE /\ replies' = <<"No pending email to approve.">>
                /\ smtp_calls' = <<>>
                /\ UNCHANGED <<imap_conn, smtp_conn>>
  /\ log' = <<>>
  /\ last_gen' = NoGen
  /\ UNCHANGED <<GEMINI_AVAILABLE, config, mock_calls, pc, processed_emails, gemini_model, server_vars,
                 poll_vars, read_emails, setup_result>>

\* cancel_command
cancel_command(u) ==
  /\ Dispatch("cancel", u, <<>>)
  /\ LET popped == pop(pending_emails, u)
     IN /\ pending_emails' = popped.dict
        /\ replies' = <<IF popped.value # Absent THEN "Pending email cancelled."
                        ELSE "No pending email to cancel.">>
  /\ smtp_calls' = <<>>
  /\ log' = <<>>
  /\ last_gen' = NoGen
  /\ UNCHANGED <<GEMINI_AVAILABLE, config, mock_calls, pc, agent_vars, server_vars, poll_vars,
                 read_emails, setup_result>>

\* email['body'][:100].replace('\n', ' ')
SnippetLen == 100
Snippet(body) ==
  LET cs == Chars(body)
      cut == SubSeq(cs, 1, IF Len(cs) < SnippetLen THEN Len(cs) ELSE SnippetLen)
  IN Str([i \in 1..Len(cut) |-> IF cut[i] = "\n" THEN " " ELSE cut[i]])

\* Snippet of every message body, computed once.
Snippets == [b \in {m.body : m \in Mails} |-> Snippet(b)] @@ <<>>

\* The text read_command sends for the message at position i (from 1).
ListingText(i, email) ==
  "Email #" \o ToString(i) \o "\nFrom: " \o Fmt(email.sender) \o "\nSubject: "
    \o email.subject \o "\nSnippet: " \o Snippets[email.body] \o "\n\nReply with /reply "
    \o ToString(i) \o " to generate a professional reply."

\* read_command: lists what the agent's read_new_emails returns, and keeps
\* the list for /reply.
read_command(u) ==
  /\ Dispatch("read", u, <<>>)
  /\ \E search \in SearchOutcomes,
        fetch \in [ToFetch(config, unseen, processed_emails) -> FetchOutcomes] :
       LET r == read_new_emails(config, imap_conn, processed_emails, inbox, unseen,
                                search, fetch)
           emails == r.new_emails
       IN /\ processed_emails' = r.processed_emails
          /\ IF emails = <<>>
             THEN /\ replies' = <<"No new emails.">>
                  /\ UNCHANGED read_emails
             ELSE /\ replies' = [i \in 1..Len(emails) |-> ListingText(i, emails[i])]
                  /\ read_emails' = [read_emails EXCEPT ![u] = emails]
  /\ smtp_calls' = <<>>
  /\ log' = <<>>
  /\ last_gen' = NoGen
  /\ UNCHANGED <<GEMINI_AVAILABLE, config, mock_calls, pc, imap_conn, smtp_conn, gemini_model,
                 server_vars, poll_vars, pending_emails, setup_result>>

\* Argument lists of /reply.
ReplyArgs == { <<>>, <<"x">>, <<"0">>, <<"1">>, <<"2">>, <<"²">> }

Digits == <<"0", "1", "2", "3", "4", "5", "6", "7", "8", "9">>

\* Characters of Unicode category No with the Digit property: str.isdigit()
\* accepts them and int() does not.
SuperscriptDigits == {"²"}

\* str.isdigit(), for the one-character arguments of ReplyArgs
isdigit(s) == (\E d \in 1..Len(Digits) : Digits[d] = s) \/ s \in SuperscriptDigits

\* int(s) raises ValueError
int_raises(s) == ~(\E d \in 1..Len(Digits) : Digits[d] = s)

\* int(s) of a digit
int(s) == (CHOOSE d \in 1..Len(Digits) : Digits[d] = s) - 1

\* reply_command: a reply to the listed message of that number becomes the
\* operator's draft.  An exception of int() or of the reply generation
\* leaves the handler: nothing is stored and nothing is answered.
reply_command(u, args) ==
  /\ Dispatch("reply", u, args)
  /\ LET emails == read_emails[u]
         email_idx == int(args[1]) - 1
     IN IF args = <<>> \/ ~isdigit(args[1])
        THEN /\ replies' = <<"Usage: /reply <email_number>">>
             /\ log' = <<>>
             /\ last_gen' = NoGen
             /\ UNCHANGED pending_emails
        ELSE IF int_raises(args[1])
        THEN /\ replies' = <<>>
             /\ log' = <<>>
             /\ last_gen' = NoGen
             /\ UNCHANGED pending_emails
        ELSE IF email_idx < 0 \/ email_idx >= Len(emails)
        THEN /\ replies' = <<"Invalid email number.">>
             /\ log' = <<>>
             /\ last_gen' = NoGen
             /\ UNCHANGED pending_emails
        ELSE \E answer \in ServiceOutcomes :
               LET email_data == emails[email_idx + 1]
                   g == generate_ai_reply(config, gemini_model, email_data, answer)
                   subject == "Re: " \o email_data.subject
               IN /\ last_gen' = [email |-> email_data, raised |-> g.raised,
                                  value |-> g.value, service_called |-> g.service_called,
                                  from_service |-> g.from_service,
                                  call_failed |-> g.call_failed]
                  /\ log' = g.log
                  /\ IF g.raised
                     THEN /\ replies' = <<>>
                          /\ UNCHANGED pending_emails
                     ELSE /\ pending_emails' =
                               [pending_emails EXCEPT ![u] = <<email_data.sender, subject, g.value>>]
                          /\ replies' = <<"Reply Preview:\nTo: " \o email_data.sender
                                          \o "\nSubject: " \o subject \o "\nBody: " \o g.value
                                          \o PreviewTail>>
  /\ smtp_calls' = <<>>
  /\ UNCHANGED <<GEMINI_AVAILABLE, config, mock_calls, pc, agent_vars, server_vars, poll_vars,
                 read_emails, setup_result>>

\* The front end never reads agent.auto_reply; its runs start with the
\* library present and a real key, the service enabled or not.
InitBot ==
  /\ Init
  /\ config.auto_reply
  /\ config.max_emails_per_check = MaxLimit
  /\ GEMINI_AVAILABLE
  /\ config.api_key = "AIza-SECRET"

NextBot ==
  \/ Arrive
  \/ MarkSeen
  \/ Construct
  \/ BotStart
  \/ \E u \in Operators, args \in MailArgs : mail_command(u, args)
  \/ \E u \in Operators, args \in ScheduleArgs : schedule(u, args)
  \/ \E u \in Operators : approve_command(u)
  \/ \E u \in Operators : cancel_command(u)
  \/ \E u \in Operators : read_command(u)
  \/ \E u \in Operators, args \in ReplyArgs : reply_command(u, args)

SpecBot == InitBot /\ [][NextBot]_vars

\* ------------------------------------------------- template generator alone
\* One direct call of generate_improved_mock_reply; the method reads its
\* argument and no field of the agent.
MockCall ==
  /\ Len(mock_calls) < MaxCalls
  /\ \E email_data \in MockInputs :
       LET r == generate_improved_mock_reply(email_data)
       IN mock_calls' = Append(mock_calls, [email_data |-> email_data, raised |-> r.raised,
                                            value |-> r.value])
  /\ UNCHANGED <<GEMINI_AVAILABLE, config, pc, agent_vars, server_vars, poll_vars, bot_vars,
                 setup_result, log, smtp_calls, last_gen>>

InitTemplate ==
  /\ Init
  /\ GEMINI_AVAILABLE
  /\ config = [auto_reply |-> TRUE, max_emails_per_check |-> MaxLimit,
               ai_enabled |-> FALSE, api_key |-> "AIza-SECRET"]

NextTemplate == MockCall

SpecTemplate == InitTemplate /\ [][NextTemplate]_vars

\* ==================================================================== claims

\* The sessions a connect_email call left open.
IsOpen(conn) == conn \in {"open", "noauth"}

\* Message numbers among unseen_ids that are among the n highest.
MostRecent(unseen_ids, n) ==
  {k \in unseen_ids : Cardinality({m \in unseen_ids : m > k}) < n}

\* ---- C1
\* C1: over the whole run no message id has more than one send_reply call,
\* every id that was replied to or is in the batch being replied to is in
\* processed_emails, and a batch holds no id twice: an id in the seen-set is
\* never fetched or replied to again, whatever its send returned.
C1_AtMostOneReplyPerId ==
  /\ \A i, j \in 1..Len(reply_attempts) :
       reply_attempts[i].id = reply_attempts[j].id => i = j
  /\ \A i \in 1..Len(reply_attempts) : reply_attempts[i].id \in processed_emails
  /\ \A i, j \in 1..Len(new_emails) : new_emails[i].id = new_emails[j].id => i = j
  /\ \A i \in 1..Len(new_emails) : new_emails[i].id \in processed_emails

\* A message whose send failed is still unseen on the server, and a later
\* poll cycle has run and found nothing new.
C1_Witness ==
  /\ pc = "polling"
  /\ config.auto_reply
  /\ new_emails = <<>>
  /\ \E i \in 1..Len(reply_attempts) :
       /\ ~reply_attempts[i].ok
       /\ \E n \in unseen : decode(n) = reply_attempts[i].id

\* ---- C5
\* C5: whenever a reply was generated while the service was disabled, its
\* startup initialisation had not succeeded, or its call failed, the text
\* returned is the template generator's text for the same message.
C5_FallbackLaw ==
  (last_gen.email # NoEmail
     /\ (~config.ai_enabled \/ ~setup_result \/ last_gen.call_failed))
  => /\ last_gen.raised = generate_improved_mock_reply(last_gen.email).raised
     /\ last_gen.value = generate_improved_mock_reply(last_gen.email).value

\* ---- C6
\* C6: no log line written on a generation-service path carries the
\* service's error payload.
C6_NoErrorTextInLog ==
  \A i \in 1..Len(log) : log[i].arg \notin ServiceErrors

\* ---- C7
\* C7: a reply is produced by a call to the service only when the
\* configuration enables the service and setup_gemini succeeded.
C7_ServiceOnlyWhenInitialised ==
  (last_gen.service_called \/ last_gen.from_service)
  => (config.ai_enabled /\ setup_result)

\* ---- C8
\* C8: a poll cycle's read_new_emails returns at most max_emails_per_check
\* messages, all among the max_emails_per_check most recent unseen ones.
C8_AtMostLimitFetched ==
  [][(pc = "polling" /\ pc' \in {"polling", "replying"} /\ UNCHANGED server_vars)
     => /\ Len(new_emails') <= config.max_emails_per_check
        /\ \A i \in 1..Len(new_emails') :
             \E n \in MostRecent(unseen, config.max_emails_per_check) :
               decode(n) = new_emails'[i].id]_vars

RECURSIVE Generated(_, _)
Generated(batch, errors) ==
  IF batch = <<>> THEN <<>>
  ELSE IF Head(batch).id \in errors THEN Generated(Tail(batch), errors)
  ELSE <<Head(batch)>> \o Generated(Tail(batch), errors)

C10_CleanupClosesBoth ==
  cleanup_done.ran =>
    /\ ~cleanup_done.raised
    /\ cleanup_done.failed \notin {"close", "logout"} => ~IsOpen(imap_conn)
    /\ cleanup_done.failed # "quit" => ~IsOpen(smtp_conn)

\* ---- C2
\* C2: the list-unread command leaves processed_emails as it was.
C2_ListUnreadKeepsSeenSet ==
  [][(\E u \in Operators : read_command(u)) => processed_emails' = processed_emails]_vars

\* A step of the front end that handled command name.
Handled(name) == pc = "serving" /\ ncmds' = ncmds + 1 /\ last_cmd'.name = name

\* ---- C3
\* C3: /mail with a recipient and a text stores <<recipient, "Message from
\* Telegram", text>> as the operator's draft, replacing any earlier one; a
\* draft of an operator appears or changes only by that operator's own /mail
\* or /reply; /approve with a draft makes exactly one send_custom_email call,
\* with the recipient, subject and body of that draft, and removes the draft;
\* /approve without one makes no call, and no other step makes one.
C3_ApproveSendsDraftOnce ==
  [][/\ (Handled("mail") /\ Len(last_cmd'.args) >= 2) =>
          pending_emails'[last_cmd'.user] =
            <<last_cmd'.args[1], "Message from Telegram", Join(Tail(last_cmd'.args))>>
     /\ \A u \in Operators :
          (pending_emails'[u] # pending_emails[u] /\ pending_emails'[u] # Absent) =>
            (last_cmd'.user = u /\ (Handled("mail") \/ Handled("reply")))
     /\ Handled("approve") =>
          LET draft == pending_emails[last_cmd'.user]
          IN /\ pending_emails'[last_cmd'.user] = Absent
             /\ IF draft # Absent
                THEN /\ Len(smtp_calls') = 1
                     /\ smtp_calls'[1].fn = "send_custom_email"
                     /\ smtp_calls'[1].to = draft[1]
                     /\ smtp_calls'[1].subject = draft[2]
                     /\ smtp_calls'[1].body = draft[3]
                ELSE smtp_calls' = <<>>
     /\ ~Handled("approve") => smtp_calls' \in {smtp_calls, <<>>}]_vars

\* /approve has just sent a draft composed by /mail, and the draft is gone.
C3_Witness ==
  /\ last_cmd.name = "approve"
  /\ Len(smtp_calls) = 1
  /\ smtp_calls[1].ok
  /\ smtp_calls[1].subject = "Message from Telegram"
  /\ pending_emails[last_cmd.user] = Absent

\* ---- C4
\* C4: /cancel or /approve by an operator without a draft answers that
\* nothing is pending, leaves pending_emails as it was, and makes no send
\* call.
C4_NothingPendingIsNoOp ==
  [][((Handled("approve") \/ Handled("cancel"))
        /\ pending_emails[last_cmd'.user] = Absent)
     => /\ pending_emails' = pending_emails
        /\ smtp_calls' = <<>>
        /\ replies' = <<IF last_cmd'.name = "approve" THEN "No pending email to approve."
                        ELSE "No pending email to cancel.">>]_vars

\* /cancel by an operator without a draft has answered, and the other
\* operator's draft is still there.
C4_Witness ==
  /\ last_cmd.name = "cancel"
  /\ replies = <<"No pending email to cancel.">>
  /\ \E v \in Operators : v # last_cmd.user /\ pending_emails[v] # Absent

\* ---- C11
\* C11: every command update of the command surface (/mail, /schedule,
\* /approve, /cancel, /read, /reply), whatever its arguments and the state,
\* makes exactly one reply_text call.
C11_OneReplyPerCommand ==
  [][(pc = "serving" /\ ncmds' = ncmds + 1) => Len(replies') = 1]_vars

\* ---- C12
\* "subject body" of an input, lower-cased.
Content(m) == Lower(Chars(m.subject)) \o <<" ">> \o Lower(Chars(m.body))

\* The positions, in the priority order, of the categories with a keyword
\* that occurs in the input's content.
Matching(m) ==
  {k \in 1..Len(Categories) : \E word \in Categories[k].words : Contains(Content(m), word)}

\* Matching of every input, as an explicit table.
Matches == [m \in MockInputs |-> Matching(m)] @@ <<>>

\* The template the priority order gives each input: that of the first
\* matching category, or the default acknowledgment.
Expected ==
  [m \in MockInputs |->
     IF Matches[m] = {} THEN DefaultReply
     ELSE Categories[CHOOSE k \in Matches[m] : \A l \in Matches[m] : k <= l].template]

\* Whether an input's content matches both the social (1) and the urgency
\* (6) keywords.
UrgentAndSocial == [m \in MockInputs |-> {1, 6} \subseteq Matches[m]]

Greetings == {"Dear Jane", "Dear there"}

\* C12: every call of the template generator with a sender returns a
\* greeting followed by the template of the first category, in the order
\* social, availability, work, meeting, business, urgency, question, that has
\* a keyword in the lower-cased "subject body", and by the default template
\* when none has; an input matching urgency and social gets the social
\* template; two calls with the same input return the same result.
C12_FirstMatchingCategory ==
  /\ \A i \in 1..Len(mock_calls) :
       LET c == mock_calls[i]
       IN c.email_data.sender # None =>
            /\ ~c.raised
            /\ \E g \in Greetings : c.value = g \o Expected[c.email_data]
            /\ UrgentAndSocial[c.email_data] =>
                 \E g \in Greetings : c.value = g \o SocialReply
  /\ \A i, j \in 1..Len(mock_calls) :
       mock_calls[i].email_data = mock_calls[j].email_data =>
         /\ mock_calls[i].raised = mock_calls[j].raised
         /\ mock_calls[i].value = mock_calls[j].value

\* The generator was called twice with the same input, one that matches
\* both urgency and social invitation, and once with one matching nothing.
C12_Witness ==
  /\ Len(mock_calls) = 2
  /\ mock_calls[1].email_data = mock_calls[2].email_data
  /\ UrgentAndSocial[mock_calls[1].email_data]
  /\ mock_calls[1].email_data.sender # None
  /\ ~mock_calls[1].raised

\* ---- C13
\* The number a /reply argument list names, 0 when it names none.
Index(args) ==
  IF args # <<>> /\ (\E d \in 1..Len(Digits) : Digits[d] = args[1]) THEN int(args[1]) ELSE 0

\* C13: /reply with a number k between 1 and the length of the operator's
\* last listing stores, without any send call, a draft to the sender of the
\* k-th listed message with subject "Re: " + its subject; with 0, a number
\* beyond the listing, a non-numeric argument or no listing it answers with
\* an error text and leaves pending_emails as it was.
C13_ReplyResolvesIndex ==
  [][Handled("reply") =>
       LET u == last_cmd'.user
           k == Index(last_cmd'.args)
           listed == read_emails[u]
       IN IF 1 <= k /\ k <= Len(listed)
          THEN /\ pending_emails'[u] # Absent
               /\ pending_emails'[u][1] = listed[k].sender
               /\ pending_emails'[u][2] = "Re: " \o listed[k].subject
               /\ smtp_calls' = <<>>
               /\ \A v \in Operators \ {u} : pending_emails'[v] = pending_emails[v]
          ELSE /\ replies' \in {<<"Usage: /reply <email_number>">>, <<"Invalid email number.">>}
               /\ pending_emails' = pending_emails]_vars

\* ---- C14
\* C14: after /approve the operator has no draft, whether the send call
\* returned success or failure; an /approve of the same operator that comes
\* next answers that nothing is pending and makes no send call.
C14_DraftGoneAfterApprove ==
  [][/\ Handled("approve") =>
          /\ pending_emails'[last_cmd'.user] = Absent
          /\ pending_emails[last_cmd'.user] # Absent =>
               (Len(smtp_calls') = 1 /\ smtp_calls'[1].ok \in BOOLEAN)
     /\ (Handled("approve") /\ last_cmd.name = "approve" /\ last_cmd.user = last_cmd'.user) =>
          /\ replies' = <<"No pending email to approve.">>
          /\ smtp_calls' = <<>>
          /\ UNCHANGED <<pending_emails, imap_conn, smtp_conn>>]_vars

\* /approve has answered that the send failed, and the draft is gone.
C14_Witness ==
  /\ last_cmd.name = "approve"
  /\ replies = <<"Failed to send email.">>
  /\ Len(smtp_calls) = 1
  /\ ~smtp_calls[1].ok
  /\ pending_emails[last_cmd.user] = Absent

\* ---- C15
\* The ids of the messages of a batch.
Ids(batch) == {batch[i].id : i \in 1..Len(batch)}

\* C15: in a poll cycle the ids added to processed_emails are exactly the
\* ids of the messages returned, all among the ids the cycle had to fetch (the
\* unseen ones within the limit that are not in processed_emails); an id
\* whose fetch or parsing fails in the cycle is not returned and not added;
\* when the loop ran, every id the cycle had to fetch was either returned or
\* failed, so a failure does not end the loop, and an id that failed in the
\* cycle before, being outside processed_emails, is fetched again if it is
\* still unseen and within the limit; send_reply is called for returned
\* messages only.
C15_FailedFetchSkipped ==
  [][/\ (pc = "polling" /\ pc' \in {"polling", "replying"} /\ UNCHANGED server_vars
         /\ config.auto_reply) =>
          LET due == {decode(n) : n \in ToFetch(config, unseen, processed_emails)}
              window == Window(config, unseen)
              returned == Ids(new_emails')
              failed == fetch_failed'
              loop_ran == returned # {} \/ failed # {}
          IN /\ returned \subseteq due
             /\ processed_emails' = processed_emails \cup returned
             /\ failed \subseteq due
             /\ failed \cap returned = {}
             /\ failed \cap processed_emails' = {}
             /\ loop_ran => due = returned \cup failed
             /\ fetch_failed \cap processed_emails = {}
             /\ loop_ran =>
                  \A i \in 1..Len(window) :
                    decode(window[i]) \in fetch_failed =>
                      decode(window[i]) \in returned \cup failed
             /\ smtp_calls' = <<>>
     /\ \A i \in 1..Len(smtp_calls') :
          smtp_calls'[i].fn = "send_reply" =>
            (smtp_calls'[i].id \in Ids(new_emails') /\ smtp_calls'[i].id \notin fetch_failed')]_vars

\* A cycle has fetched two ids: the fetch of the first failed, the second
\* was returned and is being replied to.
C15_Witness ==
  /\ pc = "replying"
  /\ fetch_failed = {"1"}
  /\ Ids(new_emails) = {"2"}
  /\ "1" \notin processed_emails

====
